---- MODULE Spec2Model ----
(***************************************************************************)
(* State-machine model of the instrument cluster in dashboard_render.cc /  *)
(* dashboard_render.h: the Dashboard controller (telemetry snapshot, lazy  *)
(* creation and repositioning of three gauges, per-frame Render) and the   *)
(* three gauge widgets (Speedometer, Tachometer, FuelGauge).               *)
(*                                                                         *)
(* Fixed-point units, so that every double computed by the code for the    *)
(* modelled inputs is an exact integer:                                    *)
(*   speed        0.1 km/h          rpm          1 RPM                     *)
(*   fuel level   0.001 %           angle        pi / 1200000              *)
(*   length       0.5 pixel                                                *)
(* A draw sequence is a sequence of tuples, one per host call              *)
(* (mjr_rectangle, mjr_text) or per call of a tiling helper (DrawArc,      *)
(* DrawCircle, DrawFilledCircle, the needle loop), with the arguments the  *)
(* code passes; a position is kept as (cx, cy, r, angle), standing for     *)
(* (cx + r cos angle, cy + r sin angle).                                   *)
(***************************************************************************)
EXTENDS Integers, Sequences, FiniteSets, TLC

\* ------------------------------------------------------------------------
\* Bounds of the model
\* ------------------------------------------------------------------------

\* Number of sampler updates (UpdateData or Render calls) explored by SpecDash.
MaxCalls == 3

\* ------------------------------------------------------------------------
\* Units and program constants
\* ------------------------------------------------------------------------

\* M_PI in angle units.
Pi == 1200000

HalfPi == Pi \div 2

\* A length of n pixels, in half-pixel units.
Px(n) == 2 * n

nullptr == "nullptr"

\* Rendering contexts a caller can pass.
Contexts == {nullptr, "ctx"}

\* Speeds (0.1 km/h) the simulation can deliver: |qvel| * 3.6 is never negative.
Speeds == {0, 5, 399, 400, 600, 799, 800, 1600, 2400, 2500}

\* Frame rectangles <<width, height>> in pixels.
Rects == {<<800, 600>>, <<1000, 800>>, <<801, 601>>}

min_speed == 0

max_speed == 2400

min_rpm == 0

max_rpm == 8000

\* rpm_scaling = 100 RPM per km/h, i.e. 10 RPM per 0.1 km/h.
rpm_scaling == 10

\* The fuel decrement 0.001 per call, and the initial fuel level 100.0.
fuel_decrement == 1

fuel_full == 100000

\* ------------------------------------------------------------------------
\* Arithmetic helpers
\* ------------------------------------------------------------------------

\* start + (end - start) * (num / den), the linear scale used by every gauge.
\* Every den used divides Pi, so dividing first is exact and stays in range.
ScaleAngle(start_angle, end_angle, num, den) ==
  start_angle + ((end_angle - start_angle) \div den) * num

\* printf("%.0f") of the non-negative value n/d: round to nearest, ties to even.
RoundHalfEven(n, d) ==
  LET q == n \div d
      r == n % d
  IN  IF 2 * r > d THEN q + 1
      ELSE IF 2 * r < d THEN q
      ELSE IF q % 2 = 0 THEN q ELSE q + 1

RECURSIVE ConcatUpTo(_, _)
\* f[0] \o f[1] \o ... \o f[n-1]: the output of a loop "for (i = 0; i < n; ++i)".
ConcatUpTo(f, n) == IF n = 0 THEN <<>> ELSE ConcatUpTo(f, n - 1) \o f[n - 1]

\* ------------------------------------------------------------------------
\* Primitive drawing layer
\* ------------------------------------------------------------------------

\* Number of tiles DrawArc and DrawCircle place per call.
segments == 100

DrawArc(center_x, center_y, radius, start_angle, end_angle, color) ==
  <<"DrawArc", center_x, center_y, radius, start_angle, end_angle, color, segments>>

DrawCircle(center_x, center_y, radius, color) ==
  <<"DrawCircle", center_x, center_y, radius, color, segments>>

DrawFilledCircle(center_x, center_y, radius, color) ==
  <<"DrawFilledCircle", center_x, center_y, radius, color>>

\* mjr_rectangle of a size x size square whose corner is the point
\* (cx + r cos a, cy + r sin a) shifted by off and truncated to int.
mjr_rectangle(cx, cy, r, a, off, size, color) ==
  <<"mjr_rectangle", cx, cy, r, a, off, size, color>>

mjr_text(str, cx, cy, r, a, color) ==
  <<"mjr_text", str, cx, cy, r, a, color>>

\* The needle loop: nseg squares interpolated from the centre to
\* centre + len * (cos a, sin a).
Needle(cx, cy, len, a, nseg, off, size) ==
  <<"Needle", cx, cy, len, a, nseg, off, size>>

\* ------------------------------------------------------------------------
\* Gauge widgets (DisplayElement and its three subclasses)
\* ------------------------------------------------------------------------

\* An object of a DisplayElement subclass: the base-class members, the
\* dynamic type, and the subclass's scalar (speed_, rpm_ or fuel_level_).
DisplayElement(type, x, y, width, height, context) ==
  [type |-> type, x |-> x, y |-> y, width |-> width, height |-> height,
   mjr_context_ |-> context, value |-> 0]

UpdatePosition(w, x, y) == [w EXCEPT !.x = x, !.y = y]

\* Speedometer::update, Tachometer::update, FuelGauge::update.
update(w, value) == [w EXCEPT !.value = value]

\* --- Speedometer ---------------------------------------------------------

\* SpeedometerClamp without the upper limit.
SpeedometerClamp_NoMax(speed_) ==
  IF speed_ < min_speed THEN min_speed ELSE speed_


SpeedometerClamp(speed_) ==
  IF speed_ > max_speed THEN max_speed
  ELSE IF speed_ < min_speed THEN min_speed
  ELSE speed_

\* SpeedometerMarks labelling the odd-indexed ticks.
SpeedometerMarks_OddLabels(center_x, center_y, radius) ==
  LET start_angle == -HalfPi
      end_angle == HalfPi
      num_marks == 13
      mark(i) ==
        LET angle == ScaleAngle(start_angle, end_angle, i, num_marks - 1)
            speed_value ==
              (min_speed + ((max_speed - min_speed) * i) \div (num_marks - 1)) \div 10
        IN  <<mjr_rectangle(center_x, center_y, radius - Px(10), angle, Px(1), 3, "white")>>
            \o (IF i % 2 = 1
                THEN <<mjr_text(ToString(speed_value), center_x, center_y,
                                radius - Px(30), angle, "white")>>
                ELSE <<>>)
  IN  ConcatUpTo([i \in 0..(num_marks - 1) |-> mark(i)], num_marks)


SpeedometerMarks(center_x, center_y, radius) ==
  LET start_angle == -HalfPi
      end_angle == HalfPi
      num_marks == 13
      mark(i) ==
        LET angle == ScaleAngle(start_angle, end_angle, i, num_marks - 1)
            speed_value ==
              (min_speed + ((max_speed - min_speed) * i) \div (num_marks - 1)) \div 10
        IN  <<mjr_rectangle(center_x, center_y, radius - Px(10), angle, Px(1), 3, "white")>>
            \o (IF i % 2 = 0
                THEN <<mjr_text(ToString(speed_value), center_x, center_y,
                                radius - Px(30), angle, "white")>>
                ELSE <<>>)
  IN  ConcatUpTo([i \in 0..(num_marks - 1) |-> mark(i)], num_marks)

\* SpeedometerArc comparing with <= : a value on a threshold stays in the lower zone.
SpeedometerArc_LowerZone(center_x, center_y, radius, clamped_speed) ==
  LET start_angle == -HalfPi
      end_angle == HalfPi
      speed_angle == ScaleAngle(start_angle, end_angle, clamped_speed, max_speed)
      angle80 == ScaleAngle(start_angle, end_angle, 800, max_speed)
      angle160 == ScaleAngle(start_angle, end_angle, 1600, max_speed)
  IN  IF clamped_speed <= 800
      THEN <<DrawArc(center_x, center_y, radius - Px(20), start_angle, speed_angle, "green")>>
      ELSE <<DrawArc(center_x, center_y, radius - Px(20), start_angle, angle80, "green")>>
           \o (IF clamped_speed <= 1600
               THEN <<DrawArc(center_x, center_y, radius - Px(20), angle80, speed_angle, "yellow")>>
               ELSE <<DrawArc(center_x, center_y, radius - Px(20), angle80, angle160, "yellow"),
                      DrawArc(center_x, center_y, radius - Px(20), angle160, speed_angle, "red")>>)


SpeedometerArc(center_x, center_y, radius, clamped_speed) ==
  LET start_angle == -HalfPi
      end_angle == HalfPi
      speed_angle == ScaleAngle(start_angle, end_angle, clamped_speed, max_speed)
      angle80 == ScaleAngle(start_angle, end_angle, 800, max_speed)
      angle160 == ScaleAngle(start_angle, end_angle, 1600, max_speed)
  IN  IF clamped_speed < 800
      THEN <<DrawArc(center_x, center_y, radius - Px(20), start_angle, speed_angle, "green")>>
      ELSE <<DrawArc(center_x, center_y, radius - Px(20), start_angle, angle80, "green")>>
           \o (IF clamped_speed < 1600
               THEN <<DrawArc(center_x, center_y, radius - Px(20), angle80, speed_angle, "yellow")>>
               ELSE <<DrawArc(center_x, center_y, radius - Px(20), angle80, angle160, "yellow"),
                      DrawArc(center_x, center_y, radius - Px(20), angle160, speed_angle, "red")>>)

SpeedometerNeedle(center_x, center_y, radius, clamped_speed) ==
  LET speed_angle == ScaleAngle(-HalfPi, HalfPi, clamped_speed, max_speed)
  IN  <<Needle(center_x, center_y, radius - Px(40), speed_angle, 20, Px(2), 5)>>

SpeedometerRender(w) ==
  IF w.mjr_context_ = nullptr THEN <<>>
  ELSE
    LET clamped_speed == SpeedometerClamp(w.value)
        center_x == w.x
        center_y == w.y
        radius == w.width
    IN  <<DrawFilledCircle(center_x, center_y, radius, "gray10"),
          DrawCircle(center_x, center_y, radius, "gray80"),
          DrawCircle(center_x, center_y, radius - Px(5), "gray20")>>
        \o SpeedometerMarks(center_x, center_y, radius)
        \o SpeedometerArc(center_x, center_y, radius, clamped_speed)
        \o SpeedometerNeedle(center_x, center_y, radius, clamped_speed)
        \o <<DrawFilledCircle(center_x, center_y, Px(15), "black"),
             DrawCircle(center_x, center_y, Px(15), "white"),
             mjr_text(ToString(RoundHalfEven(clamped_speed, 10)),
                      center_x, center_y + Px(5), 0, 0, "white"),
             mjr_text("km/h", center_x, center_y - Px(15), 0, 0, "gray80"),
             mjr_text("SPEED", center_x, center_y - radius - Px(10), 0, 0, "white")>>

\* --- Tachometer ----------------------------------------------------------

TachometerClamp(rpm_) ==
  IF rpm_ > max_rpm THEN max_rpm
  ELSE IF rpm_ < min_rpm THEN min_rpm
  ELSE rpm_

TachometerMarks(center_x, center_y, radius) ==
  LET start_angle == -HalfPi
      end_angle == HalfPi
      num_marks == 9
      mark(i) ==
        LET angle == ScaleAngle(start_angle, end_angle, i, num_marks - 1)
            rpm_value == min_rpm + ((max_rpm - min_rpm) * i) \div (num_marks - 1)
        IN  <<mjr_rectangle(center_x, center_y, radius - Px(10), angle, Px(1), 3, "white"),
              mjr_text(ToString(rpm_value \div 1000), center_x, center_y,
                       radius - Px(25), angle, "white")>>
  IN  ConcatUpTo([i \in 0..(num_marks - 1) |-> mark(i)], num_marks)

TachometerArc(center_x, center_y, radius, clamped_rpm) ==
  LET start_angle == -HalfPi
      end_angle == HalfPi
      rpm_angle == ScaleAngle(start_angle, end_angle, clamped_rpm, max_rpm)
      angle4000 == ScaleAngle(start_angle, end_angle, 4000, max_rpm)
      angle6000 == ScaleAngle(start_angle, end_angle, 6000, max_rpm)
  IN  IF clamped_rpm < 4000
      THEN <<DrawArc(center_x, center_y, radius - Px(15), start_angle, rpm_angle, "green")>>
      ELSE <<DrawArc(center_x, center_y, radius - Px(15), start_angle, angle4000, "green")>>
           \o (IF clamped_rpm < 6000
               THEN <<DrawArc(center_x, center_y, radius - Px(15), angle4000, rpm_angle, "yellow")>>
               ELSE <<DrawArc(center_x, center_y, radius - Px(15), angle4000, angle6000, "yellow"),
                      DrawArc(center_x, center_y, radius - Px(15), angle6000, rpm_angle, "red")>>)

TachometerNeedle(center_x, center_y, radius, clamped_rpm) ==
  LET rpm_angle == ScaleAngle(-HalfPi, HalfPi, clamped_rpm, max_rpm)
  IN  <<Needle(center_x, center_y, radius - Px(30), rpm_angle, 15, 3, 4)>>

TachometerRender(w) ==
  IF w.mjr_context_ = nullptr THEN <<>>
  ELSE
    LET clamped_rpm == TachometerClamp(w.value)
        center_x == w.x
        center_y == w.y
        radius == w.width
    IN  <<DrawFilledCircle(center_x, center_y, radius, "gray10"),
          DrawCircle(center_x, center_y, radius, "gray80"),
          DrawCircle(center_x, center_y, radius - Px(5), "gray20")>>
        \o TachometerMarks(center_x, center_y, radius)
        \o TachometerArc(center_x, center_y, radius, clamped_rpm)
        \o TachometerNeedle(center_x, center_y, radius, clamped_rpm)
        \o <<DrawFilledCircle(center_x, center_y, Px(10), "black"),
             DrawCircle(center_x, center_y, Px(10), "white"),
             mjr_text(ToString(RoundHalfEven(clamped_rpm, 1000)),
                      center_x, center_y + Px(5), 0, 0, "white"),
             mjr_text("RPM", center_x, center_y - Px(15), 0, 0, "gray80"),
             mjr_text("TACH", center_x, center_y - radius - Px(10), 0, 0, "white")>>

\* --- FuelGauge -----------------------------------------------------------

FuelGaugeClamp(fuel_level_) ==
  IF fuel_level_ > 100000 THEN 100000
  ELSE IF fuel_level_ < 0 THEN 0
  ELSE fuel_level_

FuelGaugeMarks(center_x, center_y, radius, clamped_fuel) ==
  LET start_angle == HalfPi
      end_angle == -HalfPi
      num_marks == 11
      mark(i) ==
        LET angle == ScaleAngle(start_angle, end_angle, i, num_marks - 1)
            \* static_cast<int>(100.0 - (clamped_fuel / 100.0) * i * 10.0)
            fuel_value == (1000000 - clamped_fuel * i) \div 10000
        IN  <<mjr_rectangle(center_x, center_y, radius - Px(10), angle, Px(1), 3, "white")>>
            \o (IF i % 2 = 0
                THEN <<mjr_text(ToString(fuel_value), center_x, center_y,
                                radius - Px(25), angle, "white")>>
                ELSE <<>>)
  IN  ConcatUpTo([i \in 0..(num_marks - 1) |-> mark(i)], num_marks)

\* FuelGaugeAngle without the "1.0 -": the scale read from its other end.
FuelGaugeAngle_Reversed(clamped_fuel) ==
  ScaleAngle(HalfPi, -HalfPi, clamped_fuel, 100000)

\* start_angle + (end_angle - start_angle) * (1.0 - clamped_fuel / 100.0)
FuelGaugeAngle(clamped_fuel) ==
  ScaleAngle(HalfPi, -HalfPi, 100000 - clamped_fuel, 100000)

\* FuelGaugeArc comparing with >= : a value on a threshold joins the higher zone.
FuelGaugeArc_HigherZone(center_x, center_y, radius, clamped_fuel) ==
  LET start_angle == HalfPi
      end_angle == -HalfPi
      fuel_angle == FuelGaugeAngle(clamped_fuel)
      mid_angle == ScaleAngle(start_angle, end_angle, 25, 100)
      low_angle == ScaleAngle(start_angle, end_angle, 75, 100)
  IN  IF clamped_fuel >= 75000
      THEN <<DrawArc(center_x, center_y, radius - Px(15), fuel_angle, end_angle, "green")>>
      ELSE IF clamped_fuel >= 25000
      THEN <<DrawArc(center_x, center_y, radius - Px(15), fuel_angle, mid_angle, "yellow"),
             DrawArc(center_x, center_y, radius - Px(15), mid_angle, end_angle, "green")>>
      ELSE <<DrawArc(center_x, center_y, radius - Px(15), fuel_angle, low_angle, "red"),
             DrawArc(center_x, center_y, radius - Px(15), low_angle, mid_angle, "yellow"),
             DrawArc(center_x, center_y, radius - Px(15), mid_angle, end_angle, "green")>>


FuelGaugeArc(center_x, center_y, radius, clamped_fuel) ==
  LET start_angle == HalfPi
      end_angle == -HalfPi
      fuel_angle == FuelGaugeAngle(clamped_fuel)
      mid_angle == ScaleAngle(start_angle, end_angle, 25, 100)
      low_angle == ScaleAngle(start_angle, end_angle, 75, 100)
  IN  IF clamped_fuel > 75000
      THEN <<DrawArc(center_x, center_y, radius - Px(15), fuel_angle, end_angle, "green")>>
      ELSE IF clamped_fuel > 25000
      THEN <<DrawArc(center_x, center_y, radius - Px(15), fuel_angle, mid_angle, "yellow"),
             DrawArc(center_x, center_y, radius - Px(15), mid_angle, end_angle, "green")>>
      ELSE <<DrawArc(center_x, center_y, radius - Px(15), fuel_angle, low_angle, "red"),
             DrawArc(center_x, center_y, radius - Px(15), low_angle, mid_angle, "yellow"),
             DrawArc(center_x, center_y, radius - Px(15), mid_angle, end_angle, "green")>>

FuelGaugeNeedle(center_x, center_y, radius, clamped_fuel) ==
  <<Needle(center_x, center_y, radius - Px(30), FuelGaugeAngle(clamped_fuel), 15, 3, 4)>>

FuelGaugeRender(w) ==
  IF w.mjr_context_ = nullptr THEN <<>>
  ELSE
    LET clamped_fuel == FuelGaugeClamp(w.value)
        center_x == w.x
        center_y == w.y
        radius == w.width
    IN  <<DrawFilledCircle(center_x, center_y, radius, "gray10"),
          DrawCircle(center_x, center_y, radius, "gray80"),
          DrawCircle(center_x, center_y, radius - Px(5), "gray20")>>
        \o FuelGaugeMarks(center_x, center_y, radius, clamped_fuel)
        \o FuelGaugeArc(center_x, center_y, radius, clamped_fuel)
        \o FuelGaugeNeedle(center_x, center_y, radius, clamped_fuel)
        \o <<DrawFilledCircle(center_x, center_y, Px(10), "black"),
             DrawCircle(center_x, center_y, Px(10), "white"),
             mjr_text(ToString(RoundHalfEven(clamped_fuel, 1000)),
                      center_x, center_y + Px(5), 0, 0, "white"),
             mjr_text("%", center_x, center_y - Px(15), 0, 0, "gray80"),
             mjr_text("FUEL", center_x, center_y - radius - Px(10), 0, 0, "white")>>

\* Virtual dispatch of DisplayElement::render on the dynamic type.
render(w) ==
  IF w.type = "Speedometer" THEN SpeedometerRender(w)
  ELSE IF w.type = "Tachometer" THEN TachometerRender(w)
  ELSE FuelGaugeRender(w)

\* A render() that writes the clamped value back into the widget.
StateAfterRender_StoresClamped(w) ==
  [w EXCEPT !.value = IF w.type = "Speedometer" THEN SpeedometerClamp(w.value)
                      ELSE IF w.type = "Tachometer" THEN TachometerClamp(w.value)
                      ELSE FuelGaugeClamp(w.value)]

\* The members render() assigns: none. A widget after its render() call.
StateAfterRender(w) == w

\* ------------------------------------------------------------------------
\* State
\* ------------------------------------------------------------------------

VARIABLES
  data_,          \* Dashboard::data_ : [speed, rpm, fuel_level]
  mjr_context_,   \* Dashboard::mjr_context_
  speedometer_,   \* Dashboard::speedometer_ : object id, 0 = nullptr
  tachometer_,    \* Dashboard::tachometer_
  fuel_gauge_,    \* Dashboard::fuel_gauge_
  heap,           \* the widgets allocated with new: object id -> widget
  frame,          \* the render() calls of the last Dashboard::Render, in call
                  \* order: <<[widget |-> id, draws |-> draw sequence], ...>>
  gauge,          \* a gauge constructed and driven directly by a caller
  shot,           \* the last render() of gauge: value read and draws emitted
  prevShot,       \* the render() of gauge before that
  lastOp          \* the last member function called on gauge

dashVars == <<data_, mjr_context_, speedometer_, tachometer_, fuel_gauge_, heap, frame>>

gaugeVars == <<gauge, shot, prevShot, lastOp>>

vars == <<data_, mjr_context_, speedometer_, tachometer_, fuel_gauge_, heap, frame,
          gauge, shot, prevShot, lastOp>>

NoGauge == DisplayElement("none", 0, 0, 0, 0, nullptr)

NoShot == [taken |-> FALSE, value |-> 0, draws |-> <<>>]

\* Dashboard::Dashboard(); no directly driven gauge exists yet.
Init ==
  /\ data_ = [speed |-> 0, rpm |-> 0, fuel_level |-> fuel_full]
  /\ mjr_context_ = nullptr
  /\ speedometer_ = 0
  /\ tachometer_ = 0
  /\ fuel_gauge_ = 0
  /\ heap = <<>>
  /\ frame = <<>>
  /\ gauge = NoGauge
  /\ shot = NoShot
  /\ prevShot = NoShot
  /\ lastOp = "none"

\* ------------------------------------------------------------------------
\* Dashboard controller
\* ------------------------------------------------------------------------

\* RpmOf without the upper limit.
RpmOf_NoMax(speed) ==
  LET rpm == speed * rpm_scaling
  IN  IF rpm < min_rpm THEN min_rpm ELSE rpm

\* The rpm estimate: speed * rpm_scaling limited to [0, 8000].
RpmOf(speed) ==
  LET rpm == speed * rpm_scaling
  IN  IF rpm > max_rpm THEN max_rpm
      ELSE IF rpm < min_rpm THEN min_rpm
      ELSE rpm

\* FuelAfter without the clamp at 0.
FuelAfter_NoClamp(fuel_level) == fuel_level - fuel_decrement

\* The fuel level after one sampler call.
FuelAfter(fuel_level) ==
  LET f == fuel_level - fuel_decrement
  IN  IF f < 0 THEN 0 ELSE f

\* The snapshot UpdateData computes from the sampled speed and the old snapshot.
SampledData(d, speed) ==
  [speed |-> speed, rpm |-> RpmOf(speed), fuel_level |-> FuelAfter(d.fuel_level)]

\* "if (speedometer_) speedometer_->update(data_.speed);" and the two like it.
PushToWidgets(h, d) ==
  [id \in DOMAIN h |->
     IF id = speedometer_ THEN update(h[id], d.speed)
     ELSE IF id = tachometer_ THEN update(h[id], d.rpm)
     ELSE IF id = fuel_gauge_ THEN update(h[id], d.fuel_level)
     ELSE h[id]]

\* Gauge centres and radii (half-pixels) for a frame rectangle <<width, height>>.
Layout(rect) ==
  LET width == rect[1]
      height == rect[2]
      center_x == width              \* width / 2.0 pixels
      center_y == height - Px(100)   \* height / 2.0 - 100 pixels
      speedometer_radius == Px(150)
      small_gauge_radius == Px(80)
  IN  [speedometer_x |-> center_x, speedometer_y |-> center_y,
       speedometer_radius |-> speedometer_radius,
       tachometer_x |-> center_x - speedometer_radius - small_gauge_radius - Px(20),
       tachometer_y |-> center_y,
       fuel_gauge_x |-> center_x + speedometer_radius + small_gauge_radius + Px(20),
       fuel_gauge_y |-> center_y,
       small_gauge_radius |-> small_gauge_radius]

\* EnsureWidgets without the "if (!speedometer_)" test: new on every call.
EnsureWidgets_AlwaysNew(sp, ta, fu, h, L, context) ==
  LET n == Cardinality(DOMAIN h)
  IN  [speedometer_ |-> n + 1, tachometer_ |-> n + 2, fuel_gauge_ |-> n + 3,
       heap |-> h @@ (n + 1 :> DisplayElement("Speedometer", L.speedometer_x,
                                L.speedometer_y, L.speedometer_radius,
                                L.speedometer_radius, context))
                  @@ (n + 2 :> DisplayElement("Tachometer", L.tachometer_x,
                                L.tachometer_y, L.small_gauge_radius,
                                L.small_gauge_radius, context))
                  @@ (n + 3 :> DisplayElement("FuelGauge", L.fuel_gauge_x,
                                L.fuel_gauge_y, L.small_gauge_radius,
                                L.small_gauge_radius, context))]

\* EnsureWidgets whose else branch leaves the existing widgets where they are.
EnsureWidgets_NoReposition(sp, ta, fu, h, L, context) ==
  IF sp = 0
  THEN EnsureWidgets_AlwaysNew(sp, ta, fu, h, L, context)
  ELSE [speedometer_ |-> sp, tachometer_ |-> ta, fuel_gauge_ |-> fu, heap |-> h]

\* "if (!speedometer_) { new ... } else { UpdatePosition ... }": the three
\* pointers and the heap afterwards.
EnsureWidgets(sp, ta, fu, h, L, context) ==
  IF sp = 0
  THEN LET n == Cardinality(DOMAIN h)
       IN  [speedometer_ |-> n + 1, tachometer_ |-> n + 2, fuel_gauge_ |-> n + 3,
            heap |-> h @@ (n + 1 :> DisplayElement("Speedometer", L.speedometer_x,
                                     L.speedometer_y, L.speedometer_radius,
                                     L.speedometer_radius, context))
                       @@ (n + 2 :> DisplayElement("Tachometer", L.tachometer_x,
                                     L.tachometer_y, L.small_gauge_radius,
                                     L.small_gauge_radius, context))
                       @@ (n + 3 :> DisplayElement("FuelGauge", L.fuel_gauge_x,
                                     L.fuel_gauge_y, L.small_gauge_radius,
                                     L.small_gauge_radius, context))]
  ELSE [speedometer_ |-> sp, tachometer_ |-> ta, fuel_gauge_ |-> fu,
        heap |-> [id \in DOMAIN h |->
                    IF id = sp THEN UpdatePosition(h[id], L.speedometer_x, L.speedometer_y)
                    ELSE IF id = ta THEN UpdatePosition(h[id], L.tachometer_x, L.tachometer_y)
                    ELSE IF id = fu THEN UpdatePosition(h[id], L.fuel_gauge_x, L.fuel_gauge_y)
                    ELSE h[id]]]

\* Dashboard::Initialize(): empty body.
Initialize == UNCHANGED vars

\* Dashboard::UpdateData with sampled speed |qvel| * 3.6 = speed.
UpdateData(speed) ==
  /\ data_' = SampledData(data_, speed)
  /\ heap' = PushToWidgets(heap, data_')
  /\ UNCHANGED <<mjr_context_, speedometer_, tachometer_, fuel_gauge_, frame>>
  /\ UNCHANGED gaugeVars

\* Dashboard::Render(model, data, mjr_context, rect).
Render(speed, context, rect) ==
  LET d == SampledData(data_, speed)
      h1 == PushToWidgets(heap, d)
      e == EnsureWidgets(speedometer_, tachometer_, fuel_gauge_, h1, Layout(rect), context)
      order == <<e.speedometer_, e.tachometer_, e.fuel_gauge_>>
  IN  /\ data_' = d
      /\ mjr_context_' = context
      /\ speedometer_' = e.speedometer_
      /\ tachometer_' = e.tachometer_
      /\ fuel_gauge_' = e.fuel_gauge_
      /\ frame' = [k \in 1..3 |-> [widget |-> order[k], draws |-> render(e.heap[order[k]])]]
      /\ heap' = [id \in DOMAIN e.heap |->
                    IF id \in {order[1], order[2], order[3]}
                    THEN StateAfterRender(e.heap[id]) ELSE e.heap[id]]
      /\ UNCHANGED gaugeVars

\* ------------------------------------------------------------------------
\* A gauge driven directly through the DisplayElement interface
\* ------------------------------------------------------------------------

GaugeTypes == {"Speedometer", "Tachometer", "FuelGauge"}

\* Centres (half-pixels) used for directly driven gauges.
Positions == {<<Px(400), Px(200)>>, <<Px(500), Px(300)>>}

\* Values handed to update(), in the unit of the gauge: each scale's ends and
\* zone thresholds, their neighbours, and values outside the range.
TestValues(type) ==
  IF type = "Speedometer" THEN {-10, 0, 5, 799, 800, 1599, 1600, 2400, 2500}
  ELSE IF type = "Tachometer" THEN {-1, 0, 500, 3999, 4000, 5999, 6000, 8000, 9000}
  ELSE {-1, 0, 500, 25000, 25001, 75000, 75001, 100000, 100001}

RadiusOf(type) == IF type = "Speedometer" THEN Px(150) ELSE Px(80)

\* new Speedometer / Tachometer / FuelGauge (x, y, radius, radius, context).
Construct(type, pos, context) ==
  /\ gauge = NoGauge
  /\ gauge' = DisplayElement(type, pos[1], pos[2], RadiusOf(type), RadiusOf(type), context)
  /\ lastOp' = "new"
  /\ UNCHANGED <<shot, prevShot>>
  /\ UNCHANGED dashVars

GaugeUpdate(value) ==
  /\ gauge # NoGauge
  /\ gauge' = update(gauge, value)
  /\ lastOp' = "update"
  /\ UNCHANGED <<shot, prevShot>>
  /\ UNCHANGED dashVars

GaugeUpdatePosition(pos) ==
  /\ gauge # NoGauge
  /\ gauge' = UpdatePosition(gauge, pos[1], pos[2])
  /\ lastOp' = "UpdatePosition"
  /\ UNCHANGED <<shot, prevShot>>
  /\ UNCHANGED dashVars

GaugeRender ==
  /\ gauge # NoGauge
  /\ shot' = [taken |-> TRUE, value |-> gauge.value, draws |-> render(gauge)]
  /\ prevShot' = shot
  /\ gauge' = StateAfterRender(gauge)
  /\ lastOp' = "render"
  /\ UNCHANGED dashVars

\* ------------------------------------------------------------------------
\* Specifications
\* ------------------------------------------------------------------------

\* The Dashboard driven through its public interface, MaxCalls sampler calls deep.
DashBudget == data_.fuel_level > fuel_full - MaxCalls * fuel_decrement

DashInitialize == DashBudget /\ Initialize

DashUpdateData == DashBudget /\ \E speed \in Speeds : UpdateData(speed)

DashRender ==
  DashBudget /\ \E speed \in Speeds, context \in Contexts, rect \in Rects :
                  Render(speed, context, rect)

NextDash == DashInitialize \/ DashUpdateData \/ DashRender

SpecDash == Init /\ [][NextDash]_vars

\* One gauge driven directly.
GaugeConstruct ==
  \E type \in GaugeTypes, pos \in Positions, context \in Contexts :
    Construct(type, pos, context)

GaugeUpdateAny == \E value \in TestValues(gauge.type) : GaugeUpdate(value)

GaugeUpdatePositionAny == \E pos \in Positions : GaugeUpdatePosition(pos)

NextGauge == GaugeConstruct \/ GaugeUpdateAny \/ GaugeUpdatePositionAny \/ GaugeRender

SpecGauge == Init /\ [][NextGauge]_vars

\* The sampler run until the tank is empty: a parked car (speed 0), frames
\* rendered without a rendering context.
FuelUpdateData == UpdateData(0)

FuelRender == Render(0, nullptr, <<800, 600>>)

NextFuel == FuelUpdateData \/ FuelRender

SpecFuel == Init /\ [][NextFuel]_vars

\* ------------------------------------------------------------------------
\* Reading a draw sequence
\* ------------------------------------------------------------------------

\* The status-arc segments of one render(), in drawing order.
Arcs(draws) == SelectSeq(draws, LAMBDA p : p[1] = "DrawArc")

ArcColors(draws) == [k \in 1..Len(Arcs(draws)) |-> Arcs(draws)[k][7]]

\* The angle of the needle drawn by one render().
NeedleAngle(draws) == SelectSeq(draws, LAMBDA p : p[1] = "Needle")[1][5]

\* The numeric readout: the third text from the end.
Readout(draws) == draws[Len(draws) - 2][2]

\* The Dashboard's widgets exist.
HasWidgets == speedometer_ # 0

\* A Dashboard::Render call has completed.
Rendered == frame # <<>>

\* ------------------------------------------------------------------------
\* Claims
\* ------------------------------------------------------------------------

\* C1: across any sequence of Render calls the three gauge widgets are
\* constructed exactly once, all together in the first Render call: before it
\* there is no widget, after it there are exactly three distinct objects; every
\* later call keeps the same three object identities, allocates and frees
\* nothing, and changes of a widget only its position and stored value.
C1_WidgetsCreatedOnce ==
  /\ [](IF Rendered
        THEN /\ DOMAIN heap = {speedometer_, tachometer_, fuel_gauge_}
             /\ Cardinality(DOMAIN heap) = 3
             /\ heap[speedometer_].type = "Speedometer"
             /\ heap[tachometer_].type = "Tachometer"
             /\ heap[fuel_gauge_].type = "FuelGauge"
        ELSE /\ DOMAIN heap = {}
             /\ speedometer_ = 0 /\ tachometer_ = 0 /\ fuel_gauge_ = 0)
  /\ [][HasWidgets =>
          /\ speedometer_' = speedometer_
          /\ tachometer_' = tachometer_
          /\ fuel_gauge_' = fuel_gauge_
          /\ DOMAIN heap' = DOMAIN heap
          /\ \A id \in DOMAIN heap :
               /\ heap'[id].type = heap[id].type
               /\ heap'[id].width = heap[id].width
               /\ heap'[id].height = heap[id].height
               /\ heap'[id].mjr_context_ = heap[id].mjr_context_]_vars

\* C1 witness: a second Render call, with a 1000x800 frame after an 800x600 or
\* other one, has moved the widgets created by the first call (the fuel gauge
\* of a first call always reads 0; here it reads the sampled level).
C1_Witness ==
  /\ Rendered
  /\ speedometer_ = 1
  /\ heap[speedometer_].x = 1000
  /\ heap[tachometer_].x = 1000 - Px(250)
  /\ frame[3].draws # <<>>
  /\ Readout(frame[3].draws) = "100"

\* C2: at the moment the gauges render, each gauge's stored value is the value
\* sampled in the same Render call (speed, rpm, fuel level of the snapshot);
\* a later UpdateData keeps them equal, so it is stated for every state in
\* which the widgets exist.
C2_RenderShowsCurrentSnapshot ==
  HasWidgets =>
    /\ heap[speedometer_].value = data_.speed
    /\ heap[tachometer_].value = data_.rpm
    /\ heap[fuel_gauge_].value = data_.fuel_level

\* C3: the fuel level starts at 100, never leaves [0, 100], never increases,
\* and each sampler call subtracts the decrement and clamps at 0.
C3_FuelMonotoneClamped ==
  /\ data_.fuel_level = fuel_full
  /\ [](data_.fuel_level >= 0 /\ data_.fuel_level <= fuel_full)
  /\ [][/\ data_'.fuel_level <= data_.fuel_level
        /\ data_'.fuel_level = IF data_.fuel_level >= fuel_decrement
                               THEN data_.fuel_level - fuel_decrement ELSE 0]_vars

\* C3 witness: the tank has run empty, with the widgets in place and fed.
C3_Witness ==
  /\ data_.fuel_level = 0
  /\ HasWidgets
  /\ heap[fuel_gauge_].value = 0

\* C4: with fuel level 0 the FuelGauge's status arc is all red: exactly one
\* segment is drawn and it is red.
C4_EmptyTankAllRed ==
  (/\ gauge.type = "FuelGauge"
   /\ shot.taken
   /\ shot.draws # <<>>
   /\ shot.value <= 0)
  => ArcColors(shot.draws) = <<"red">>

\* C5: a Render call given a null rendering context issues no draw primitive
\* (Dashboard::mjr_context_ holds the context of the last Render call).
C5_NullContextDrawsNothing ==
  (Rendered /\ mjr_context_ = nullptr) =>
    \A k \in DOMAIN frame : frame[k].draws = <<>>

\* The value min(max(v, lo), hi).
Clamped(v, lo, hi) == IF v < lo THEN lo ELSE IF v > hi THEN hi ELSE v

\* The angle of value c on a scale [0, max] running from -pi/2 up to +pi/2.
RisingAngle(c, max) == (Pi \div max) * c - HalfPi

\* <<start angle, end angle, colour>> of each status-arc segment drawn.
ArcSpans(draws) ==
  [k \in 1..Len(Arcs(draws)) |-> <<Arcs(draws)[k][5], Arcs(draws)[k][6], Arcs(draws)[k][7]>>]

\* The three-zone arc of a rising scale [0, max] with thresholds t1 < t2 for
\* the clamped value c, boundary values in the higher zone.
ZoneSpans(c, t1, t2, max) ==
  IF c < t1 THEN <<  <<-HalfPi, RisingAngle(c, max), "green">>  >>
  ELSE IF c < t2 THEN <<  <<-HalfPi, RisingAngle(t1, max), "green">>,
                          <<RisingAngle(t1, max), RisingAngle(c, max), "yellow">>  >>
  ELSE <<  <<-HalfPi, RisingAngle(t1, max), "green">>,
           <<RisingAngle(t1, max), RisingAngle(t2, max), "yellow">>,
           <<RisingAngle(t2, max), RisingAngle(c, max), "red">>  >>

\* The directly driven gauge is of this type and its last render() drew.
Drew(type) == gauge.type = type /\ shot.taken /\ shot.draws # <<>>

\* ... and so did the render() before it.
DrewTwice(type) == Drew(type) /\ prevShot.taken /\ prevShot.draws # <<>>

\* C6: Speedometer (80, 160 on [0,240]) and Tachometer (4000, 6000 on
\* [0,8000]): below the first threshold only a green segment, ending at the
\* value's angle; from the first threshold on, green ends and yellow begins at
\* the first threshold's angle; from the second on, yellow ends and red begins
\* at the second threshold's angle. A value on a threshold is in the higher zone.
C6_ArcBoundariesAtThresholds ==
  /\ Drew("Speedometer") =>
       ArcSpans(shot.draws) = ZoneSpans(Clamped(shot.value, 0, 2400), 800, 1600, 2400)
  /\ Drew("Tachometer") =>
       ArcSpans(shot.draws) = ZoneSpans(Clamped(shot.value, 0, 8000), 4000, 6000, 8000)

\* C6 witness: a Speedometer drawn with speed exactly 80.0.
C6_Witness == Drew("Speedometer") /\ shot.value = 800

\* C7 as claimed: fuel exactly 75 takes the green-zone branch (one segment,
\* green) and fuel exactly 25 the yellow-zone branch (two segments, yellow first).
C7_FuelBoundaryHigherZone ==
  /\ (Drew("FuelGauge") /\ shot.value = 75000) => ArcColors(shot.draws) = <<"green">>
  /\ (Drew("FuelGauge") /\ shot.value = 25000) => ArcColors(shot.draws) = <<"yellow", "green">>

\* C7 amended: the FuelGauge compares with strict >, so a fuel value exactly
\* on a zone boundary belongs to the lower zone: the green branch is taken
\* only above 75, the yellow branch for 25 < fuel <= 75 (75 included), the red
\* branch for fuel <= 25 (25 included); values beyond min/max clamp: they
\* render like 0 resp. 100.
C7_FuelBoundaryLowerZone ==
  Drew("FuelGauge") =>
    LET c == Clamped(shot.value, 0, 100000)
    IN  /\ ArcColors(shot.draws) =
             (IF c <= 25000 THEN <<"red", "yellow", "green">>
              ELSE IF c <= 75000 THEN <<"yellow", "green">>
              ELSE <<"green">>)
        /\ shot.value >= 100000 =>
             Readout(shot.draws) = "100" /\ NeedleAngle(shot.draws) = HalfPi
        /\ shot.value <= 0 =>
             Readout(shot.draws) = "0" /\ NeedleAngle(shot.draws) = -HalfPi

\* C7 witness: a FuelGauge drawn with fuel exactly 75.
C7_Witness == Drew("FuelGauge") /\ shot.value = 75000

\* C8 as claimed: the FuelGauge needle is at +pi/2 for fuel 0 and at -pi/2
\* for fuel 100.
C8_FuelNeedleInverted ==
  /\ (Drew("FuelGauge") /\ shot.value = 0) => NeedleAngle(shot.draws) = HalfPi
  /\ (Drew("FuelGauge") /\ shot.value = 100000) => NeedleAngle(shot.draws) = -HalfPi

\* C8 amended: the FuelGauge needle angle is a monotonic (non-decreasing)
\* linear function of the clamped fuel value over [0,100], with angle -pi/2
\* at fuel 0 and +pi/2 at fuel 100.
C8_FuelNeedleRising ==
  /\ Drew("FuelGauge") =>
       NeedleAngle(shot.draws) = RisingAngle(Clamped(shot.value, 0, 100000), 100000)
  /\ (Drew("FuelGauge") /\ shot.value = 0) => NeedleAngle(shot.draws) = -HalfPi
  /\ (Drew("FuelGauge") /\ shot.value = 100000) => NeedleAngle(shot.draws) = HalfPi
  /\ (DrewTwice("FuelGauge") /\ prevShot.value <= shot.value) =>
       NeedleAngle(prevShot.draws) <= NeedleAngle(shot.draws)

\* C8 witness: a FuelGauge drawn with an empty and then with a full tank.
C8_Witness == DrewTwice("FuelGauge") /\ prevShot.value = 0 /\ shot.value = 100000

\* C9: Speedometer and Tachometer needles: a non-decreasing linear function of
\* the clamped value, -pi/2 at 0 and +pi/2 at max (240 km/h, 8000 RPM); inputs
\* below 0 or above max give the angle of 0 resp. max.
C9_NeedleRisingClamped ==
  /\ \A type \in {"Speedometer", "Tachometer"} :
       LET max == IF type = "Speedometer" THEN 2400 ELSE 8000
       IN  /\ Drew(type) =>
                /\ NeedleAngle(shot.draws) = RisingAngle(Clamped(shot.value, 0, max), max)
                /\ shot.value <= 0 => NeedleAngle(shot.draws) = -HalfPi
                /\ shot.value >= max => NeedleAngle(shot.draws) = HalfPi
           /\ (DrewTwice(type) /\ prevShot.value <= shot.value) =>
                NeedleAngle(prevShot.draws) <= NeedleAngle(shot.draws)

\* C9 witness: a Speedometer drawn at its maximum and then above it.
C9_Witness == DrewTwice("Speedometer") /\ prevShot.value = 2400 /\ shot.value = 2500

\* C10: render() leaves the widget as it found it; the stored value changes
\* only in update(); and a render() directly after a render() emits the same
\* draw sequence.
C10_RenderReadOnly ==
  [][/\ lastOp' = "render" => gauge' = gauge
     /\ (lastOp = "render" /\ lastOp' = "render") => shot'.draws = shot.draws
     /\ gauge'.value # gauge.value => lastOp' = "update"]_vars

\* C10 witness: two render() calls in a row of a gauge holding an
\* out-of-range value, both drawing, with equal output.
C10_Witness ==
  /\ lastOp = "render"
  /\ DrewTwice(gauge.type)
  /\ prevShot = shot
  /\ shot.value = gauge.value
  /\ gauge.value > 1

\* This step is a Dashboard::Render call.
IsRender == \E speed \in Speeds, context \in Contexts, rect \in Rects :
              Render(speed, context, rect)

\* This step is a Dashboard::Render call with this frame rectangle.
IsRenderIn(rect) == \E speed \in Speeds, context \in Contexts :
                      Render(speed, context, rect)

\* This step is a Dashboard::Render call with this rendering context.
IsRenderWith(context) == \E speed \in Speeds, rect \in Rects :
                           Render(speed, context, rect)

\* C11: whenever the Speedometer draws in a Render call, it draws its stored
\* speed s as min(max(s, 0), 240): readout, needle and status arc are those of
\* the clamped value; and after any sampler update rpm = clamp(speed * 100, 0,
\* 8000), within [0, 8000], and from one snapshot to the next a speed that is
\* not lower gives an rpm that is not lower.
C11_SpeedClampedRpmMonotone ==
  /\ [](/\ data_.rpm >= 0 /\ data_.rpm <= 8000
        /\ data_.rpm = Clamped(100 * data_.speed, 0, 80000) \div 10)
  /\ [][data_'.speed >= data_.speed => data_'.rpm >= data_.rpm]_vars
  /\ [][(IsRender /\ frame'[1].draws # <<>>) =>
          LET s == heap'[speedometer_'].value
              c == IF s < 0 THEN 0 ELSE IF s > 2400 THEN 2400 ELSE s
          IN  /\ Readout(frame'[1].draws) = ToString(RoundHalfEven(c, 10))
              /\ NeedleAngle(frame'[1].draws) = RisingAngle(c, 2400)
              /\ ArcSpans(frame'[1].draws) = ZoneSpans(c, 800, 1600, 2400)]_vars

\* C11 witness: a speed above the scale (250 km/h) sampled, rpm limited to
\* 8000, and the Speedometer drawn with 240.
C11_Witness ==
  /\ Rendered
  /\ data_.speed = 2500
  /\ data_.rpm = 8000
  /\ heap[speedometer_].value = 2500
  /\ frame[1].draws # <<>>
  /\ Readout(frame[1].draws) = "240"

\* C12: after every Render call with a frame rectangle of width W and height
\* H the gauge centres are (W/2, H/2 - 100), (W/2 - 250, H/2 - 100) and
\* (W/2 + 250, H/2 - 100) for speedometer, tachometer and fuel gauge, whatever
\* the earlier frames were; 800x600 puts the speedometer at (400, 200).
\* Coordinates are in half-pixels: W stands for W/2 pixels.
C12_LayoutFromFrameRect ==
  [][\A rect \in Rects :
       IsRenderIn(rect) =>
         LET W == rect[1]
             H == rect[2]
             sp == heap'[speedometer_']
             ta == heap'[tachometer_']
             fu == heap'[fuel_gauge_']
         IN  /\ sp.x = W /\ sp.y = H - 200
             /\ ta.x = W - 500 /\ ta.y = H - 200
             /\ fu.x = W + 500 /\ fu.y = H - 200
             /\ sp.x - ta.x = fu.x - sp.x
             /\ rect = <<800, 600>> => (sp.x = Px(400) /\ sp.y = Px(200))]_vars

\* C12 witness: a later Render call with an 801x601 frame has put the
\* existing gauges at (400.5, 200.5), (150.5, 200.5), (650.5, 200.5) and drawn
\* them there.
C12_Witness ==
  /\ Rendered
  /\ heap[speedometer_].x = 801 /\ heap[speedometer_].y = 401
  /\ heap[tachometer_].x = 301
  /\ heap[fuel_gauge_].x = 1301
  /\ frame[3].draws # <<>>
  /\ frame[3].draws[1][2] = 1301
  /\ Readout(frame[3].draws) = "100"

RECURSIVE SumTiles(_)
\* The number of tiles (mjr_rectangle calls) a sequence of DrawArc calls places.
SumTiles(arcs) == IF arcs = <<>> THEN 0 ELSE Head(arcs)[8] + SumTiles(Tail(arcs))

\* The number of status-arc tiles one render() places.
ArcTiles(draws) == SumTiles(Arcs(draws))

\* The tick marks of one render(), in drawing order: <<radius, angle, offset, size>>.
TickMarks(draws) ==
  LET t == SelectSeq(draws, LAMBDA p : p[1] = "mjr_rectangle")
  IN  [k \in 1..Len(t) |-> <<t[k][4], t[k][5], t[k][6], t[k][7]>>]

TickAngles(draws) == [k \in 1..Len(TickMarks(draws)) |-> TickMarks(draws)[k][2]]

\* The tick labels of one render(), in drawing order: <<string, radius, angle>>
\* (the texts placed on the scale, not those at the centre).
TickLabels(draws) ==
  LET t == SelectSeq(draws, LAMBDA p : p[1] = "mjr_text" /\ p[5] > 0)
  IN  [k \in 1..Len(t) |-> <<t[k][2], t[k][5], t[k][6]>>]

LabelAngles(draws) == [k \in 1..Len(TickLabels(draws)) |-> TickLabels(draws)[k][3]]

\* n angles evenly spaced from start to end, both included.
EvenlySpaced(start, end, n) ==
  [k \in 1..n |-> start + (k - 1) * ((end - start) \div (n - 1))]

\* The angles of the even-indexed ticks (indices 0, 2, 4, ...) of such a scale.
EvenIndexed(angles) == [j \in 1..((Len(angles) + 1) \div 2) |-> angles[2 * j - 1]]

\* C13: with speed 0 the Speedometer draws the needle at -pi/2, the readout
\* "0", and no status-arc tile.
C13_ZeroSpeedEmptyArc ==
  (Drew("Speedometer") /\ shot.value = 0) =>
    /\ NeedleAngle(shot.draws) = -HalfPi
    /\ Readout(shot.draws) = "0"
    /\ ArcTiles(shot.draws) = 0

\* C14: for every gauge and value, the status-arc segments drawn are chained
\* end to start, run in one direction (so no two overlap), lie between the
\* scale's min end (-pi/2) and the value's angle, and together span exactly
\* from one of these to the other.
C14_ArcCoversUpToValue ==
  \A type \in GaugeTypes :
    Drew(type) =>
      LET spans == ArcSpans(shot.draws)
          n == Len(spans)
          v == NeedleAngle(shot.draws)
      IN  /\ n >= 1
          /\ \A k \in 1..(n - 1) : spans[k][2] = spans[k + 1][1]
          /\ \/ \A k \in 1..n : spans[k][1] <= spans[k][2]
             \/ \A k \in 1..n : spans[k][1] >= spans[k][2]
          /\ \A k \in 1..n : /\ spans[k][1] >= -HalfPi /\ spans[k][1] <= v
                             /\ spans[k][2] >= -HalfPi /\ spans[k][2] <= v
          /\ {spans[1][1], spans[n][2]} = {-HalfPi, v}

\* C15 as claimed: 13, 9 and 11 evenly spaced ticks from the scale's start
\* angle to its end angle, and for all three gauges a label exactly at the
\* even-indexed ticks.
C15_LabelsAtEvenTicks ==
  \A type \in GaugeTypes :
    Drew(type) =>
      LET n == IF type = "Speedometer" THEN 13 ELSE IF type = "Tachometer" THEN 9 ELSE 11
          start == IF type = "FuelGauge" THEN HalfPi ELSE -HalfPi
          ticks == EvenlySpaced(start, -start, n)
      IN  /\ TickAngles(shot.draws) = ticks
          /\ LabelAngles(shot.draws) = EvenIndexed(ticks)

\* C15 amended: 13, 9 and 11 evenly spaced ticks from the scale's start angle
\* to its end angle; the Speedometer and the FuelGauge draw a label exactly at
\* the even-indexed ticks, the Tachometer draws a label at every tick.
C15_LabelsPerGauge ==
  \A type \in GaugeTypes :
    Drew(type) =>
      LET n == IF type = "Speedometer" THEN 13 ELSE IF type = "Tachometer" THEN 9 ELSE 11
          start == IF type = "FuelGauge" THEN HalfPi ELSE -HalfPi
          ticks == EvenlySpaced(start, -start, n)
      IN  /\ TickAngles(shot.draws) = ticks
          /\ LabelAngles(shot.draws) =
               (IF type = "Tachometer" THEN ticks ELSE EvenIndexed(ticks))

\* C15 witness: a Tachometer drawn, with nine ticks and nine labels.
C15_Witness ==
  /\ Drew("Tachometer")
  /\ Len(TickMarks(shot.draws)) = 9
  /\ Len(TickLabels(shot.draws)) = 9

\* C16: two render() calls of the same gauge, whatever its stored values,
\* draw the same tick marks and the same tick labels (strings and places on
\* the scale).
C16_TicksIndependentOfValue ==
  \A type \in GaugeTypes :
    DrewTwice(type) =>
      /\ TickMarks(prevShot.draws) = TickMarks(shot.draws)
      /\ TickLabels(prevShot.draws) = TickLabels(shot.draws)

\* C17: a Render call given a non-null rendering context draws all three
\* gauges, whatever contexts earlier calls were given (Dashboard::mjr_context_
\* holds the context of the last Render call).
C17_ValidContextDrawsAll ==
  (Rendered /\ mjr_context_ # nullptr) =>
    \A k \in DOMAIN frame : frame[k].draws # <<>>

====
